---- MODULE Spec2Model ----
(***************************************************************************)
(* A model of the real-time recommendation workshop:                       *)
(*   notebook 3  click stream -> Kinesis Data Stream -> Kinesis Data       *)
(*               Analytics (stagger window SQL) -> DESTINATION_SQL_STREAM  *)
(*   notebook 1  the Feature Store: online ("hot") and offline ("cold")    *)
(*   notebook 4  collaborative filtering candidates -> ranking model       *)
(* Time is counted in minutes: the SQL window is RANGE INTERVAL '2' MINUTE.*)
(***************************************************************************)
EXTENDS Integers, Sequences, FiniteSets, TLC

\* ------------------------------------------------------------------------
\* Program constants and the bounds of the model
\* ------------------------------------------------------------------------

\* WINDOWED BY STAGGER (... RANGE INTERVAL '2' MINUTE)
W == 2

\* the clock stops here
MaxTime == 4
\* records put into the Kinesis stream
MaxEvents == 3
\* records put by the notebook's own run, which puts for one customer only
MaxNotebookEvents == 4

\* records put into the Feature Store
MaxWrites == 3
\* the EventTime of a record put into the Feature Store is in 0..MaxEventTime
MaxEventTime == 2
\* products that notebook 2 hands to notebook 4 as candidates
MaxCandidates == 6
\* products that the collaborative filtering model scores in one call
MaxScored == 11
\* times the cells of notebook 4 are run again in the same kernel
MaxReruns == 1

Customers == {"C3571", "C1000"}

activities == {"liked", "added_to_cart", "added_to_wish_list", "saved_for_later"}

activity_weights_dict ==
  [a \in activities |->
     IF a \in {"liked", "added_to_wish_list"} THEN 1 ELSE 2]

\* product_health_index, in tenths, of the products a customer looks at: a
\* call of put_records_in_kinesis_stream names the range it draws them from
\* (0.1 to 0.3 for inference_customer_id)
HealthIndexes(c) == IF c = "C3571" THEN {2} ELSE {8}

\* event_time is utcnow() minus 10 seconds, taken before the product query
\* and the put: in whole minutes it is the minute of arrival or the one before
Lags == {0, 1}

VARIABLES
  now,          \* the wall clock, which is also ROWTIME of an arriving row
  stream,       \* the Kinesis stream (one shard): the records in arrival order
  window,       \* per customer: the stagger window of the KDA application
  destination   \* DESTINATION_SQL_STREAM: the rows the pump has inserted

aggVars == <<now, stream, window, destination>>

VARIABLES
  hot,          \* the online store of the click stream feature group
  writes,       \* every record put into the feature group, in arrival order
  cold,         \* the offline store: positions in writes that have synced
  lastRead,     \* what the last get_record of notebook 3 returned
  waiter,       \* notebook 1: ingesting, then waiting for the offline data
  queried       \* what the last query of the offline store returned

storeVars == <<hot, writes, cold, lastRead, waiter, queried>>

VARIABLES
  existing_endpoints,    \* the endpoints that list_endpoints returns
  pc,                    \* the cell notebook 4 runs next
  predictions,           \* the scores of the collaborative filtering model
  cf_inference_df,       \* the candidate products
  ranking_inference_df,  \* the input rows of the ranking model, then its output
  recommendations,       \* the list the last cell of notebook 4 shows
  raised,                \* the exception that ended the notebook, if any
  in_service,            \* the endpoints whose EndpointStatus is InService
  calls,                 \* the calls the ranking cell has made, in order
  deployed,              \* the models behind the endpoints, when they are fixed
  runs                   \* how many times the cells have been run again

reqVars == <<in_service, calls, deployed, runs>>

rankVars == <<existing_endpoints, pc, predictions, cf_inference_df, ranking_inference_df,
              recommendations, raised, reqVars>>

VARIABLES
  StreamStatus,   \* the status of the Kinesis stream, as the service has it
  setup_pc,       \* the statement of the setup cells notebook 3 runs next
  polls,          \* the describe_stream calls: the status returned, and the
                  \* number of sleeps the notebook had made by then
  sleeps,         \* the number of time.sleep(20) calls the notebook has made
  creates         \* the create_application calls: what each one returned

setupVars == <<StreamStatus, setup_pc, polls, sleeps, creates>>

\* ------------------------------------------------------------------------
\* Notebook 3: the stream and the application are created
\* ------------------------------------------------------------------------

\* the most describe_stream calls and create_application calls followed
MaxPolls == 3
MaxCreates == 3

\* StreamDescription.StreamStatus of a stream that exists
StreamStatuses == {"CREATING", "ACTIVE", "UPDATING", "DELETING"}

\* ApplicationSummary.ApplicationStatus
ApplicationStatuses ==
  {"READY", "STARTING", "RUNNING", "STOPPING", "UPDATING", "DELETING"}

\* the setup cells have run: the stream is there and active
SetupDone ==
  /\ StreamStatus = "ACTIVE"
  /\ setup_pc = "done"
  /\ polls = <<>>
  /\ sleeps = 0
  /\ creates = <<>>

\* kinesis_client.create_stream(StreamName=..., ShardCount=1);
\* active_stream = False
CreateStream ==
  /\ setup_pc = "create_stream"
  /\ StreamStatus' = "CREATING"
  /\ setup_pc' = "describe_stream"
  /\ UNCHANGED <<polls, sleeps, creates, aggVars, storeVars, rankVars>>

\* One pass of `while not active_stream` up to its sleep: the status is
\* read; CREATING goes on to time.sleep(20), ACTIVE ends the loop, and any
\* other status falls through both branches to the next pass.
DescribeStream ==
  /\ setup_pc = "describe_stream"
  /\ Len(polls) < MaxPolls
  /\ LET status == StreamStatus
     IN /\ polls' = Append(polls, [status |-> status, sleeps |-> sleeps])
        /\ setup_pc' = IF status = "CREATING" THEN "sleep_stream"
                       ELSE IF status = "ACTIVE" THEN "create_application"
                       ELSE "describe_stream"
  /\ UNCHANGED <<StreamStatus, sleeps, creates, aggVars, storeVars, rankVars>>

\* time.sleep(20) of the stream loop
SleepStream ==
  /\ setup_pc = "sleep_stream"
  /\ sleeps' = sleeps + 1
  /\ setup_pc' = "describe_stream"
  /\ UNCHANGED <<StreamStatus, polls, creates, aggVars, storeVars, rankVars>>

\* the service finishes creating or updating the stream
StreamActivated ==
  /\ StreamStatus \in {"CREATING", "UPDATING"}
  /\ StreamStatus' = "ACTIVE"
  /\ UNCHANGED <<setup_pc, polls, sleeps, creates, aggVars, storeVars, rankVars>>

\* the stream is changed, or deleted as the cleanup notebook deletes it,
\* while the setup cells run
StreamChanged(status) ==
  /\ StreamStatus = "ACTIVE"
  /\ status \in {"UPDATING", "DELETING"}
  /\ StreamStatus' = status
  /\ UNCHANGED <<setup_pc, polls, sleeps, creates, aggVars, storeVars, rankVars>>

\* One pass of `while not creating_app` up to its sleep: create_application
\* is called and answers with the status in the summary; from the second
\* call on the application may be there already and the call may raise.
CreateApplication(response) ==
  /\ setup_pc = "create_application"
  /\ Len(creates) < MaxCreates
  /\ creates = <<>> => response \in ApplicationStatuses
  /\ creates' = Append(creates, response)
  /\ setup_pc' = IF response = "ResourceInUseException" THEN "raised"
                 ELSE IF response # "READY" THEN "sleep_app"
                 ELSE "done"
  /\ UNCHANGED <<StreamStatus, polls, sleeps, aggVars, storeVars, rankVars>>

\* time.sleep(20) of the application loop
SleepApp ==
  /\ setup_pc = "sleep_app"
  /\ sleeps' = sleeps + 1
  /\ setup_pc' = "create_application"
  /\ UNCHANGED <<StreamStatus, polls, creates, aggVars, storeVars, rankVars>>

SetupNext ==
  \/ CreateStream
  \/ DescribeStream
  \/ SleepStream
  \/ StreamActivated
  \/ \E status \in StreamStatuses : StreamChanged(status)
  \/ \E response \in ApplicationStatuses \cup {"ResourceInUseException"} :
       CreateApplication(response)
  \/ SleepApp

\* ------------------------------------------------------------------------
\* Notebook 3: the producer
\* ------------------------------------------------------------------------

\* The record one loop iteration builds. event_time is taken from the clock
\* before the product query runs, so it lies `lag` minutes before the put.
generate_click_stream_data(customer_id, activity, health, lag) ==
  [event_time           |-> now - lag,
   customer_id          |-> customer_id,
   activity_weight      |-> activity_weights_dict[activity],
   product_health_index |-> health]

\* ------------------------------------------------------------------------
\* Notebook 3: the KDA application (sql_code)
\* ------------------------------------------------------------------------

IdleWindow == [state |-> "Idle", start |-> 0, rows |-> {},
               sum |-> 0, hsum |-> 0, n |-> 0]

\* A stagger window opens at the ROWTIME of the first row of its partition.
MutWindowOpenAt(rowtime) == rowtime - (rowtime % W)
WindowOpenAt(rowtime) == rowtime

\* The window is over once ROWTIME has reached its start plus the range.
MutExpired(w) == w.state = "Accumulating" /\ now > w.start + W
MutExpiredIdle(w) == now >= w.start + W
Expired(w) == w.state = "Accumulating" /\ now >= w.start + W

\* SUM(ACTIVITY_WEIGHT), AVG(PRODUCT_HEALTH_INDEX) over the rows of one
\* partition (PARTITION BY CUSTOMER_ID): the running state after one row.
\* rows holds the positions in the stream of the rows of the window; it is
\* kept to state the properties and the application does not read it.
MutAccumulate(w, row) ==
  [state |-> "Accumulating",
   start |-> IF w.state = "Idle" THEN WindowOpenAt(row.rowtime) ELSE w.start,
   rows  |-> w.rows \cup {row.position},
   sum   |-> w.sum + 1,
   hsum  |-> w.hsum + row.product_health_index,
   n     |-> w.n + 1]
MutAccumulateShared(w, row) ==
  IF w.state = "Idle"
  THEN [state |-> "Accumulating",
        start |-> WindowOpenAt(row.rowtime),
        rows  |-> {row.position},
        sum   |-> row.activity_weight
                    + (IF \E d \in Customers : window[d].state = "Accumulating"
                       THEN 1 ELSE 0),
        hsum  |-> row.product_health_index,
        n     |-> 1]
  ELSE [w EXCEPT !.rows = @ \cup {row.position},
                 !.sum  = @ + row.activity_weight,
                 !.hsum = @ + row.product_health_index,
                 !.n    = @ + 1]
Accumulate(w, row) ==
  IF w.state = "Idle"
  THEN [state |-> "Accumulating",
        start |-> WindowOpenAt(row.rowtime),
        rows  |-> {row.position},
        sum   |-> row.activity_weight,
        hsum  |-> row.product_health_index,
        n     |-> 1]
  ELSE [w EXCEPT !.rows = @ \cup {row.position},
                 !.sum  = @ + row.activity_weight,
                 !.hsum = @ + row.product_health_index,
                 !.n    = @ + 1]

\* The row the pump inserts when the window of customer c is over. The
\* stream has three columns; window_start, rows and emitted_at are kept
\* beside them to state the properties.
DestinationRow(c, w) ==
  [customer_id                      |-> c,
   sum_activity_weight_last_2m      |-> w.sum,
   avg_product_health_index_last_2m |-> <<w.hsum, w.n>>,
   window_start                     |-> w.start,
   rows                             |-> w.rows,
   emitted_at                       |-> now]

\* What the window of a customer becomes once its row is inserted.
MutWindowAfterEmit(w) == w
WindowAfterEmit(w) == IdleWindow

\* put_record on a stream of one shard: whatever the partition key, the
\* record goes to the end of that shard.
MutPutOnShard(shard, record) == <<record>> \o shard
PutOnShard(shard, record) == Append(shard, record)

AggInit ==
  /\ now = 0
  /\ stream = <<>>
  /\ window = [c \in Customers |-> IdleWindow]
  /\ destination = <<>>

\* One iteration of put_records_in_kinesis_stream: the record is built and
\* put (PartitionKey "partitionkey", one shard), and the application reads it.
\* Rows are processed in ROWTIME order: a window that is over at this
\* ROWTIME has emitted before the row is counted.
PutRecord(limit, c, a, h, lag) ==
  /\ Len(stream) < limit
  /\ ~Expired(window[c])
  /\ LET data == generate_click_stream_data(c, a, h, lag)
         row  == [event_time           |-> data.event_time,
                  customer_id          |-> data.customer_id,
                  activity_weight      |-> data.activity_weight,
                  product_health_index |-> data.product_health_index,
                  rowtime              |-> now,
                  position             |-> Len(stream) + 1]
     IN /\ stream' = PutOnShard(stream, [PartitionKey    |-> "partitionkey",
                                         event_time      |-> row.event_time,
                                         customer_id     |-> row.customer_id,
                                         activity_weight |-> row.activity_weight,
                                         rowtime         |-> row.rowtime])
        /\ window' = [window EXCEPT ![c] = Accumulate(window[c], row)]
  /\ UNCHANGED <<now, destination, storeVars, rankVars, setupVars>>

\* The window of customer c is over: its aggregate is inserted into
\* DESTINATION_SQL_STREAM.
EmitWindow(c) ==
  /\ Expired(window[c])
  /\ destination' = Append(destination, DestinationRow(c, window[c]))
  /\ window' = [window EXCEPT ![c] = WindowAfterEmit(window[c])]
  /\ UNCHANGED <<now, stream, storeVars, rankVars, setupVars>>

\* A minute passes. A window that is over has emitted before time moves on.
Tick ==
  /\ now < MaxTime
  /\ \A c \in Customers : ~Expired(window[c])
  /\ now' = now + 1
  /\ UNCHANGED <<stream, window, destination, storeVars, rankVars, setupVars>>

AggNext ==
  \/ \E c \in Customers, a \in activities, lag \in Lags :
       \E h \in HealthIndexes(c) : PutRecord(MaxEvents, c, a, h, lag)
  \/ \E c \in Customers : EmitWindow(c)
  \/ Tick

\* Notebook 3 as it is run: every record is put for inference_customer_id.
inference_customer_id == "C3571"

NotebookNext ==
  \/ \E a \in activities, h \in HealthIndexes(inference_customer_id), lag \in Lags :
       PutRecord(MaxNotebookEvents, inference_customer_id, a, h, lag)
  \/ EmitWindow(inference_customer_id)
  \/ Tick

\* One call put_records_in_kinesis_stream(inference_customer_id, 0.1, 0.3):
\* n_range iterations, each of which queries the offline store for a product
\* and waits for the answer before it puts its record, so that time may pass
\* between two puts.
n_range == 6

CallNext ==
  \/ \E a \in activities, h \in HealthIndexes(inference_customer_id), lag \in Lags :
       PutRecord(n_range, inference_customer_id, a, h, lag)
  \/ EmitWindow(inference_customer_id)
  \/ Tick

\* Any producer of the stream: kinesis_client.put_record takes the Data it is
\* given. The records are those of a producer that builds them by other
\* means than generate_click_stream_data: a negative weight, an activity
\* that is not one of the four, a record without activity_type.
ProducerRecords(c) ==
  { [event_time |-> now, customer_id |-> c, activity_type |-> a,
     activity_weight |-> w, product_health_index |-> h] :
       a \in {"liked"}, w \in {1, -1}, h \in HealthIndexes(c) }
  \cup
  { [event_time |-> now, customer_id |-> c, activity_type |-> a,
     activity_weight |-> 2, product_health_index |-> h] :
       a \in {"added_to_cart", "purchased"}, h \in HealthIndexes(c) }
  \cup
  { [event_time |-> now, customer_id |-> c,
     activity_weight |-> 1, product_health_index |-> h] :
       h \in HealthIndexes(c) }

\* kinesis_client.put_record(StreamName, Data=json.dumps(data), PartitionKey):
\* the record is appended to the shard as it is, and the application reads
\* the columns of its input schema from it.
PutData(data) ==
  /\ Len(stream) < MaxEvents
  /\ ~Expired(window[data.customer_id])
  /\ LET row == [activity_weight      |-> data.activity_weight,
                 product_health_index |-> data.product_health_index,
                 rowtime              |-> now,
                 position             |-> Len(stream) + 1]
     IN /\ stream' = PutOnShard(stream, [PartitionKey |-> "partitionkey",
                                         json |-> data, rowtime |-> now])
        /\ window' = [window EXCEPT ![data.customer_id] =
                                      Accumulate(window[data.customer_id], row)]
  /\ UNCHANGED <<now, destination, storeVars, rankVars, setupVars>>

IngestNext ==
  \/ \E data \in ProducerRecords(inference_customer_id) : PutData(data)
  \/ EmitWindow(inference_customer_id)
  \/ Tick

\* ------------------------------------------------------------------------
\* The Feature Store: the online and the offline store of a feature group
\* whose record identifier is customer_id
\* ------------------------------------------------------------------------

NoRecord == [found |-> FALSE]

\* the features of the k-th record put: no two puts carry the same values
Features(k) ==
  [sum_activity_weight_last_2m      |-> k,
   avg_product_health_index_last_2m |-> <<1 + (k % 3), 1>>]

\* PutRecord on the online store: a record replaces the stored one unless
\* its EventTime is older than that of the stored one.
MutPutRecordOnline(store, c, features, event_time) ==
  IF ~store[c].found
  THEN [store EXCEPT ![c] = [found |-> TRUE, features |-> features,
                             event_time |-> event_time]]
  ELSE [store EXCEPT ![c].features.sum_activity_weight_last_2m =
                       @ + features.sum_activity_weight_last_2m,
                     ![c].event_time = event_time]
PutRecordOnline(store, c, features, event_time) ==
  IF ~store[c].found \/ event_time >= store[c].event_time
  THEN [store EXCEPT ![c] = [found |-> TRUE, features |-> features,
                             event_time |-> event_time]]
  ELSE store

\* the offline store's newest synced record of customer c
NewestOffline(c) ==
  LET mine == {i \in cold : writes[i].customer_id = c}
  IN IF mine = {} THEN NoRecord
     ELSE LET i == CHOOSE x \in mine :
                     \A y \in mine :
                       \/ writes[y].event_time < writes[x].event_time
                       \/ (writes[y].event_time = writes[x].event_time /\ y <= x)
          IN [found |-> TRUE, features |-> writes[i].features,
              event_time |-> writes[i].event_time]

\* featurestore_runtime.get_record(FeatureGroupName, RecordIdentifierValueAsString):
\* the record of the online store; the response has no 'Record' when the
\* identifier has none.
MutGetRecord(c) ==
  IF NewestOffline(c).found
  THEN [Record |-> NewestOffline(c).features, EventTime |-> NewestOffline(c).event_time]
  ELSE [ResponseMetadata |-> "200"]
GetRecord(c) ==
  IF hot[c].found
  THEN [Record |-> hot[c].features, EventTime |-> hot[c].event_time]
  ELSE [ResponseMetadata |-> "200"]

NoRead == [customer_id |-> "", seen |-> 0, response |-> [ResponseMetadata |-> ""]]

\* no query of the offline store has run
NoQuery == [predicate |-> [customer_id |-> "", feature_name |-> "",
                           include_deleted |-> FALSE],
            seen |-> 0, rows |-> {}]

StoreIdle ==
  /\ hot = [c \in Customers |-> NoRecord]
  /\ writes = <<>>
  /\ cold = {}
  /\ lastRead = NoRead
  /\ waiter = [pc |-> "ingesting", expected |-> 0]
  /\ queried = NoQuery

\* A record is put into the feature group (the Lambda function of the
\* application's output, or a worker of the bulk ingestion).
PutHot(c, event_time) ==
  /\ Len(writes) < MaxWrites
  /\ LET features == Features(Len(writes) + 1)
     IN /\ hot' = PutRecordOnline(hot, c, features, event_time)
        /\ writes' = Append(writes, [customer_id |-> c, features |-> features,
                                     event_time |-> event_time,
                                     is_deleted |-> FALSE])
  /\ UNCHANGED <<cold, lastRead, waiter, queried, aggVars, rankVars, setupVars>>

\* The feature group syncs one more record to the offline store.
Replicate(i) ==
  /\ i \in DOMAIN writes
  /\ i \notin cold
  /\ cold' = cold \cup {i}
  /\ UNCHANGED <<hot, writes, lastRead, waiter, queried, aggVars, rankVars, setupVars>>

\* "See that the ingested record is in the feature group": the get_record
\* of the click stream feature group that ends notebook 3.
MutReadIdentifier(c) == CHOOSE d \in Customers : d # c
ReadIdentifier(c) == c

GetClickStreamRecord(c) ==
  /\ lastRead' = [customer_id |-> c, seen |-> Len(writes),
                  response |-> GetRecord(ReadIdentifier(c))]
  /\ UNCHANGED <<hot, writes, cold, waiter, queried, aggVars, rankVars, setupVars>>

\* time.sleep(120) after put_records_in_kinesis_stream has returned, in
\* minutes
SleepMinutes == 2

\* the clock when the sleep that started at put_time is over
MutSleepOver(put_time) == put_time + 1
SleepOver(put_time) == put_time + SleepMinutes

\* The cell after the sleep: put_records_in_kinesis_stream has put its
\* n_range records, the sleep that began when it returned is over, and
\* get_record is called for inference_customer_id.
ReadAfterSleep ==
  /\ Len(stream) = n_range
  /\ lastRead = NoRead
  /\ now >= SleepOver(stream[n_range].rowtime)
  /\ GetClickStreamRecord(inference_customer_id)

\* the cells of notebook 3 from the puts to the read
ReadNext ==
  \/ CallNext
  \/ ReadAfterSleep

\* A record is deleted: the online store drops it, and the offline store is
\* given one more version of it whose is_deleted column is True.
DeleteRecord(c, event_time) ==
  /\ Len(writes) < MaxWrites
  /\ hot[c].found
  /\ hot' = [hot EXCEPT ![c] = NoRecord]
  /\ writes' = Append(writes, [customer_id |-> c, features |-> hot[c].features,
                               event_time |-> event_time,
                               is_deleted |-> TRUE])
  /\ UNCHANGED <<cold, lastRead, waiter, queried, aggVars, rankVars, setupVars>>

\* the rows of the feature group's table in the offline store: one for each
\* version that has synced
MutOfflineRows ==
  {[version |-> i, record |-> writes[i]] : i \in
     {x \in cold : \A y \in cold : writes[y].customer_id = writes[x].customer_id
                                      => y <= x}}
OfflineRows == {[version |-> i, record |-> writes[i]] : i \in cold}

\* the WHERE clause of a query: the record identifier, a feature of the
\* table, and whether the rows marked is_deleted are filtered out
Predicates ==
  [customer_id : Customers,
   feature_name : {"sum_activity_weight_last_2m", "avg_product_health_index_last_2m"},
   include_deleted : BOOLEAN]

MutMatches(row, predicate) ==
  /\ row.record.customer_id = predicate.customer_id
  /\ predicate.feature_name \in DOMAIN row.record.features
  /\ ~row.record.is_deleted
Matches(row, predicate) ==
  /\ row.record.customer_id = predicate.customer_id
  /\ predicate.feature_name \in DOMAIN row.record.features
  /\ (predicate.include_deleted \/ ~row.record.is_deleted)

\* query_offline_store(feature_group_name, query, sagemaker_session): the
\* rows of the offline store's table that the query selects
query_offline_store(predicate) ==
  {row \in OfflineRows : Matches(row, predicate)}

QueryOfflineStore(predicate) ==
  /\ queried' = [predicate |-> predicate, seen |-> Cardinality(cold),
                 rows |-> query_offline_store(predicate)]
  /\ UNCHANGED <<hot, writes, cold, lastRead, waiter, aggVars, rankVars, setupVars>>

\* the offline store under puts, deletes and queries; a record carries the
\* oldest or the newest EventTime, so that versions arrive in and out of order
EventTimes == {0, MaxEventTime}

ColdNext ==
  \/ \E c \in Customers, t \in EventTimes : PutHot(c, t)
  \/ \E c \in Customers, t \in EventTimes : DeleteRecord(c, t)
  \/ \E i \in 1..MaxWrites : Replicate(i)
  \/ \E predicate \in Predicates : QueryOfflineStore(predicate)

\* The Lambda function behind the application's output (lambda-stream.py):
\* it takes the rows of DESTINATION_SQL_STREAM in order and puts each into
\* the click stream feature group under the row's customer_id.
Deliver ==
  /\ Len(writes) < Len(destination)
  /\ LET row == destination[Len(writes) + 1]
         features == [sum_activity_weight_last_2m      |-> row.sum_activity_weight_last_2m,
                      avg_product_health_index_last_2m |-> row.avg_product_health_index_last_2m]
     IN /\ hot' = PutRecordOnline(hot, row.customer_id, features, now)
        /\ writes' = Append(writes, [customer_id |-> row.customer_id,
                                     features |-> features,
                                     event_time |-> now,
                                     is_deleted |-> FALSE])
  /\ UNCHANGED <<cold, lastRead, waiter, queried, aggVars, rankVars, setupVars>>

\* the click stream pipeline from the stream to the feature group
PipelineNext ==
  \/ \E c \in Customers, a \in activities, lag \in Lags :
       \E h \in HealthIndexes(c) : PutRecord(MaxEvents, c, a, h, lag)
  \/ \E c \in Customers : EmitWindow(c)
  \/ Tick
  \/ Deliver

\* the pipeline as notebook 3 runs it, with the Lambda function behind it
NotebookPipelineNext ==
  \/ \E a \in activities, h \in HealthIndexes(inference_customer_id), lag \in Lags :
       PutRecord(MaxNotebookEvents, inference_customer_id, a, h, lag)
  \/ EmitWindow(inference_customer_id)
  \/ Tick
  \/ Deliver

StoreNext ==
  \/ \E c \in Customers, t \in 0..MaxEventTime : PutHot(c, t)
  \/ \E i \in 1..MaxWrites : Replicate(i)
  \/ \E c \in Customers : GetClickStreamRecord(c)

\* ------------------------------------------------------------------------
\* Notebook 1: bulk ingestion, then the wait for the offline data
\* ------------------------------------------------------------------------

\* ingest_data_into_feature_group(df, feature_group): one row of the
\* dataframe is put.
IngestRow(c, event_time) ==
  /\ waiter.pc = "ingesting"
  /\ PutHot(c, event_time)

\* the rows wait_for_offline_data is told to wait for: those of the
\* dataframe that was ingested
MutOfflineRowsExpected == Len(writes) + 1
OfflineRowsExpected == Len(writes)

\* the ingestion has returned and wait_for_offline_data is called
StartWait ==
  /\ waiter.pc = "ingesting"
  /\ Len(writes) > 0
  /\ waiter' = [pc |-> "waiting", expected |-> OfflineRowsExpected]
  /\ UNCHANGED <<hot, writes, cold, lastRead, queried, aggVars, rankVars, setupVars>>

\* wait_for_offline_data polls the offline store and returns once the rows
\* are there
WaitPoll ==
  /\ waiter.pc = "waiting"
  /\ Cardinality(cold) >= waiter.expected
  /\ waiter' = [waiter EXCEPT !.pc = "done"]
  /\ UNCHANGED <<hot, writes, cold, lastRead, queried, aggVars, rankVars, setupVars>>

OfflineNext ==
  \/ \E c \in Customers, t \in 0..MaxEventTime : IngestRow(c, t)
  \/ \E i \in 1..MaxWrites : Replicate(i)
  \/ StartWait
  \/ WaitPoll

\* ------------------------------------------------------------------------
\* Notebook 4: the candidates of the collaborative filtering model, ranked
\* by the ranking model
\* ------------------------------------------------------------------------

\* Text is a sequence of character codes: 48..57 the digits, 46 the point,
\* 45 the minus sign, 101 the letter e. A probability is a whole number of
\* hundred-thousandths, from 1 to 99999.

\* str(x) of a float x: positional notation from 0.0001 on, scientific
\* notation below
FractionDigits(v) == [i \in 1..5 |-> 48 + ((v \div (10 ^ (5 - i))) % 10)]

RECURSIVE StripZeros(_)
StripZeros(t) ==
  IF Len(t) > 1 /\ t[Len(t)] = 48 THEN StripZeros(SubSeq(t, 1, Len(t) - 1))
  ELSE t

FloatText(v) ==
  IF v < 10 THEN <<48 + v, 101, 45, 48, 53>>
  ELSE <<48, 46>> \o StripZeros(FractionDigits(v))

\* the order of Python's str: by the first character that differs, a proper
\* prefix first
TextLess(a, b) ==
  \E k \in 1..(Len(a) + 1) :
    /\ \A i \in 1..(k - 1) : i <= Len(b) /\ a[i] = b[i]
    /\ k <= Len(b)
    /\ (k > Len(a) \/ a[k] < b[k])

\* the order of the values of a column: numbers by value, text as above
ColumnLess(by, a, b) ==
  IF by = "predictions" THEN a < b ELSE TextLess(a, b)

\* DataFrame.sort_values(by=column, ascending=False) of a frame of at most 16
\* rows: the sort is by insertion, so rows with equal values keep their order.
RECURSIVE sort_values(_, _)
sort_values(df, by) ==
  IF Len(df) <= 1 THEN df
  ELSE LET front == sort_values(SubSeq(df, 1, Len(df) - 1), by)
           row   == df[Len(df)]
           n     == Cardinality({j \in DOMAIN front :
                                   ~ColumnLess(by, front[j][by], row[by])})
       IN SubSeq(front, 1, n) \o <<row>> \o SubSeq(front, n + 1, Len(front))

head(df, n) == SubSeq(df, 1, IF Len(df) < n THEN Len(df) ELSE n)

\* reset_index(drop=True): the rows are numbered from 0 in their new order
MutResetIndex(df) == df
reset_index(df) == [i \in DOMAIN df |-> [df[i] EXCEPT !.index = i - 1]]

\* cf_inference_df as notebook 2 stored it: the most popular products of the
\* customer's state, which are in no order of product_id
top_rated_products_by_customer_state(top_n) ==
  [i \in 1..top_n |->
     [index |-> i - 1, product_id |-> IF i % 2 = 1 THEN i + 1 ELSE i - 1,
      predictions |-> 0]]

\* the products feature group, which notebook 1 filled for every product
ProductHealthIndexes == {1, 2, 3}
product_health_index(product_id) == 1 + (product_id % 3)

\* what the two models can answer. The ranking model scores each row of its
\* input by itself: rows with the same features get the same score.
CfScores == {1, 2}
Propensities == {9, 25000, 50000}
RankingModels == [ProductHealthIndexes -> Propensities]

\* the two endpoints notebook 2 deploys without waiting for them
Endpoints == {"cf", "rank"}

\* the models behind the endpoints are not fixed: each call may be answered
\* by any model
NoModels == [cf |-> <<>>, rank |-> <<>>]

RankIdle ==
  /\ existing_endpoints = {}
  /\ pc = "off"
  /\ predictions = <<>>
  /\ cf_inference_df = <<>>
  /\ ranking_inference_df = <<>>
  /\ recommendations = <<>>
  /\ raised = ""
  /\ in_service = {}
  /\ calls = <<>>
  /\ deployed = NoModels
  /\ runs = 0

\* notebook 4 starts: the candidates of notebook 2 are loaded, and the click
\* stream feature group has a record of the customer or has none
RankInit ==
  /\ AggInit
  /\ SetupDone
  /\ existing_endpoints \in SUBSET Endpoints
  /\ pc = "wait_cf"
  /\ predictions = <<>>
  /\ \E top_n \in 0..MaxCandidates :
       cf_inference_df = top_rated_products_by_customer_state(top_n)
  /\ ranking_inference_df = <<>>
  /\ recommendations = <<>>
  /\ raised = ""
  /\ in_service \in SUBSET existing_endpoints
  /\ calls = <<>>
  /\ deployed = NoModels
  /\ runs = 0
  /\ \E r \in {NoRecord, [found |-> TRUE, features |-> Features(5), event_time |-> 0]} :
       hot = [c \in Customers |-> IF c = inference_customer_id THEN r ELSE NoRecord]
  /\ writes = <<>>
  /\ cold = {}
  /\ lastRead = NoRead
  /\ waiter = [pc |-> "ingesting", expected |-> 0]
  /\ queried = NoQuery

\* "Sort by predictions and take top 10"
TopCandidates == 10

\* An endpoint of notebook 2 comes to exist.
EndpointListed(e) ==
  /\ e \notin existing_endpoints
  /\ existing_endpoints' = existing_endpoints \cup {e}
  /\ UNCHANGED <<pc, predictions, cf_inference_df, ranking_inference_df,
                 recommendations, raised, aggVars, storeVars, reqVars, setupVars>>

\* The deployment of an endpoint that exists completes: its EndpointStatus
\* goes from Creating to InService.
EndpointInService(e) ==
  /\ e \in existing_endpoints
  /\ e \notin in_service
  /\ in_service' = in_service \cup {e}
  /\ UNCHANGED <<existing_endpoints, pc, predictions, cf_inference_df,
                 ranking_inference_df, recommendations, raised, calls, deployed, runs,
                 aggVars, storeVars, setupVars>>

\* "Make sure model has finished deploying": list_endpoints, and while it
\* returns nothing, sleep for a minute and list again.
ListEndpoints(e) ==
  /\ pc = "wait_" \o e
  /\ pc' = IF e \in existing_endpoints THEN e ELSE "sleep_" \o e
  /\ UNCHANGED <<existing_endpoints, predictions, cf_inference_df,
                 ranking_inference_df, recommendations, raised, aggVars, storeVars, reqVars, setupVars>>

Sleep(e) ==
  /\ pc = "sleep_" \o e
  /\ pc' = "wait_" \o e
  /\ UNCHANGED <<existing_endpoints, predictions, cf_inference_df,
                 ranking_inference_df, recommendations, raised, aggVars, storeVars, reqVars, setupVars>>

\* An exception leaves the cell and the run of the notebook ends there.
MutOnException == "show"
OnException == "failed"

\* the candidates with their scores, the best ten first
MutTopCandidates(df, scores) ==
  LET scored == [i \in DOMAIN df |-> [df[i] EXCEPT !.predictions = scores[i]]]
  IN head(scored, TopCandidates)
top_candidates(df, scores) ==
  LET scored == [i \in DOMAIN df |-> [df[i] EXCEPT !.predictions = scores[i]]]
  IN head(sort_values(scored, "predictions"), TopCandidates)

\* the collaborative filtering endpoint answers with one score for each
\* candidate, in the order of the candidates; only an endpoint that is in
\* service answers
CfCell(scores) ==
  /\ pc = "cf"
  /\ "cf" \in in_service
  /\ predictions' = scores
  /\ IF runs >= 2
     THEN \* reset_index() finds the columns index and level_0 of the runs before
          /\ raised' = "ValueError"
          /\ pc' = OnException
          /\ UNCHANGED cf_inference_df
     ELSE /\ cf_inference_df' = top_candidates(cf_inference_df, scores)
          /\ pc' = "wait_rank"
          /\ UNCHANGED raised
  /\ UNCHANGED <<existing_endpoints, ranking_inference_df, recommendations,
                 aggVars, storeVars, reqVars, setupVars>>

\* cf_model_predictor.predict raises: the endpoint cannot be reached or
\* answers with an error
CfCellRaises ==
  /\ pc = "cf"
  /\ raised' = "ClientError"
  /\ pc' = OnException
  /\ UNCHANGED <<existing_endpoints, predictions, cf_inference_df,
                 ranking_inference_df, recommendations, aggVars, storeVars, reqVars, setupVars>>

\* get_ranking_model_input_data: the exception it raises, "" when none
InputDataError(df) ==
  IF Len(df) = 0 THEN "IndexError"
  ELSE IF "Record" \notin DOMAIN GetRecord(inference_customer_id) THEN "KeyError"
  ELSE ""

\* get_ranking_model_input_data: one row for each candidate
MutGetRankingModelInputData(df) ==
  LET click_stream_record == GetRecord(inference_customer_id).Record
      avg == IF writes = <<>>
             THEN click_stream_record.avg_product_health_index_last_2m
             ELSE writes[1].features.avg_product_health_index_last_2m
      healthy_activity_last_2m ==
        (click_stream_record.sum_activity_weight_last_2m * avg[1]) \div avg[2]
  IN [i \in DOMAIN df |->
        [healthy_activity_last_2m |-> healthy_activity_last_2m,
         product_health_index     |-> product_health_index(df[i].product_id),
         propensity_to_buy        |-> <<>>]]
get_ranking_model_input_data(df) ==
  LET click_stream_record == GetRecord(inference_customer_id).Record
      avg == click_stream_record.avg_product_health_index_last_2m
      healthy_activity_last_2m ==
        (click_stream_record.sum_activity_weight_last_2m * avg[1]) \div avg[2]
  IN [i \in DOMAIN df |->
        [healthy_activity_last_2m |-> healthy_activity_last_2m,
         product_health_index     |-> product_health_index(df[i].product_id),
         propensity_to_buy        |-> <<>>]]

\* The calls of the ranking cell, in the order of the code: get_record of the
\* customer, get_record of the product of every row, get_record of the click
\* stream record, then one predict on all the rows. df.iloc[0] raises before
\* any call when there is no row, and click_stream_record['Record'] raises
\* after the reads when the customer has no click stream record.
GetRecordCalls(df) ==
  <<[api |-> "get_record", group |-> "customers", rows |-> 0, product_id |-> 0]>>
  \o [i \in DOMAIN df |->
        [api |-> "get_record", group |-> "products", rows |-> 0,
         product_id |-> df[i].product_id]]
  \o <<[api |-> "get_record", group |-> "click_stream", rows |-> 0, product_id |-> 0]>>

MutRankingCalls(df) ==
  IF Len(df) = 0 THEN <<>>
  ELSE IF InputDataError(df) # "" THEN GetRecordCalls(df)
  ELSE <<[api |-> "predict", group |-> "", rows |-> Len(df), product_id |-> 0]>>
       \o GetRecordCalls(df)
RankingCalls(df) ==
  IF Len(df) = 0 THEN <<>>
  ELSE IF InputDataError(df) # "" THEN GetRecordCalls(df)
  ELSE GetRecordCalls(df)
       \o <<[api |-> "predict", group |-> "", rows |-> Len(df), product_id |-> 0]>>

\* "Construct input data for the ranking model", then "Get our ranked product
\* recommendations and attach the predictions to the model input": the
\* endpoint answers with the text of its predictions, split at the commas.
RankCell(ranking_model) ==
  /\ pc = "rank"
  /\ InputDataError(cf_inference_df) # "" \/ "rank" \in in_service
  /\ IF InputDataError(cf_inference_df) # ""
     THEN /\ raised' = InputDataError(cf_inference_df)
          /\ pc' = OnException
          /\ UNCHANGED ranking_inference_df
     ELSE /\ LET input == get_ranking_model_input_data(cf_inference_df)
             IN ranking_inference_df' =
                  [i \in DOMAIN input |->
                     [input[i] EXCEPT !.propensity_to_buy =
                        FloatText(ranking_model[input[i].product_health_index])]]
          /\ pc' = "show"
          /\ UNCHANGED raised
  /\ calls' = RankingCalls(cf_inference_df)
  /\ UNCHANGED <<existing_endpoints, predictions, cf_inference_df, recommendations,
                 aggVars, storeVars, in_service, deployed, runs, setupVars>>

\* ranking_model_predictor.predict raises or times out: the input rows are
\* built and no propensity is attached to them
RankCellRaises ==
  /\ pc = "rank"
  /\ InputDataError(cf_inference_df) = ""
  /\ ranking_inference_df' = get_ranking_model_input_data(cf_inference_df)
  /\ raised' = "ClientError"
  /\ pc' = OnException
  /\ calls' = RankingCalls(cf_inference_df)
  /\ UNCHANGED <<existing_endpoints, predictions, cf_inference_df, recommendations,
                 aggVars, storeVars, in_service, deployed, runs, setupVars>>

\* "Join all the data back together for inspection", "And sort by propensity
\* to buy": the column holds text
TopShown == 5

personalized_recommendations ==
  [i \in DOMAIN cf_inference_df |->
     [index             |-> i - 1,
      product_id        |-> cf_inference_df[i].product_id,
      propensity_to_buy |-> ranking_inference_df[i].propensity_to_buy]]

\* the first five rows of the frame sorted by propensity to buy, with the
\* columns product_id and product_name
top_recommendations(df) ==
  LET sorted == sort_values(df, "propensity_to_buy")
      shown  == head(reset_index(sorted), TopShown)
  IN [i \in DOMAIN shown |-> [index      |-> shown[i].index,
                              product_id |-> shown[i].product_id]]

ShowCell ==
  /\ pc = "show"
  /\ recommendations' = top_recommendations(personalized_recommendations)
  /\ pc' = "done"
  /\ UNCHANGED <<existing_endpoints, predictions, cf_inference_df,
                 ranking_inference_df, raised, aggVars, storeVars, reqVars, setupVars>>

\* the cells of notebook 4, in the order of the notebook
NotebookStep ==
  \/ \E e \in Endpoints : ListEndpoints(e)
  \/ \E e \in Endpoints : Sleep(e)
  \/ \E scores \in [DOMAIN cf_inference_df -> CfScores] : CfCell(scores)
  \/ CfCellRaises
  \/ \E ranking_model \in RankingModels : RankCell(ranking_model)
  \/ RankCellRaises
  \/ ShowCell

\* the cell of the collaborative filtering model by itself, on as many
\* candidates as notebook 2 may have stored (top_n is 15 there)
SelectInit ==
  /\ AggInit
  /\ SetupDone
  /\ StoreIdle
  /\ existing_endpoints = Endpoints
  /\ pc = "cf"
  /\ predictions = <<>>
  /\ \E top_n \in 0..MaxScored :
       cf_inference_df = top_rated_products_by_customer_state(top_n)
  /\ ranking_inference_df = <<>>
  /\ recommendations = <<>>
  /\ raised = ""
  /\ in_service = Endpoints
  /\ calls = <<>>
  /\ deployed = NoModels
  /\ runs = 0

SelectNext ==
  \E scores \in [DOMAIN cf_inference_df -> CfScores] : CfCell(scores)

\* The cells of the request are run again in the same kernel: the globals
\* of the run before are still there.
Rerun ==
  /\ pc = "done"
  /\ runs < MaxReruns
  /\ runs' = runs + 1
  /\ pc' = "cf"
  /\ UNCHANGED <<existing_endpoints, predictions, cf_inference_df, ranking_inference_df,
                 recommendations, raised, in_service, calls, deployed,
                 aggVars, storeVars, setupVars>>

\* notebook 4 with both endpoints in service, each answering as the model
\* behind it does: the same input gets the same answer in every run
RerunInit ==
  /\ AggInit
  /\ SetupDone
  /\ existing_endpoints = Endpoints
  /\ in_service = Endpoints
  /\ pc = "cf"
  /\ predictions = <<>>
  /\ \E top_n \in 0..MaxCandidates :
       /\ cf_inference_df = top_rated_products_by_customer_state(top_n)
       /\ \E scores \in [1..top_n -> CfScores], ranking_model \in RankingModels :
            deployed = [cf |-> scores, rank |-> ranking_model]
  /\ ranking_inference_df = <<>>
  /\ recommendations = <<>>
  /\ raised = ""
  /\ calls = <<>>
  /\ runs = 0
  /\ hot = [c \in Customers |->
              IF c = inference_customer_id
              THEN [found |-> TRUE, features |-> Features(5), event_time |-> 0]
              ELSE NoRecord]
  /\ writes = <<>>
  /\ cold = {}
  /\ lastRead = NoRead
  /\ waiter = [pc |-> "ingesting", expected |-> 0]
  /\ queried = NoQuery

RerunNext ==
  \/ CfCell(deployed.cf)
  \/ \E e \in Endpoints : ListEndpoints(e)
  \/ RankCell(deployed.rank)
  \/ ShowCell
  \/ Rerun

\* A request of notebook 4 while the pipeline of notebook 3 keeps putting
\* new aggregates of the customer into the click stream feature group.
ConcurrentInit ==
  /\ AggInit
  /\ SetupDone
  /\ existing_endpoints = Endpoints
  /\ in_service = Endpoints
  /\ pc = "cf"
  /\ predictions = <<>>
  /\ \E top_n \in 0..MaxCandidates :
       cf_inference_df = top_rated_products_by_customer_state(top_n)
  /\ ranking_inference_df = <<>>
  /\ recommendations = <<>>
  /\ raised = ""
  /\ calls = <<>>
  /\ deployed = NoModels
  /\ runs = 0
  /\ hot = [c \in Customers |->
              IF c = inference_customer_id
              THEN [found |-> TRUE, features |-> Features(5), event_time |-> 0]
              ELSE NoRecord]
  /\ writes = <<>>
  /\ cold = {}
  /\ lastRead = NoRead
  /\ waiter = [pc |-> "ingesting", expected |-> 0]
  /\ queried = NoQuery

ConcurrentNext ==
  \/ \E scores \in [DOMAIN cf_inference_df -> CfScores] : CfCell(scores)
  \/ \E e \in Endpoints : ListEndpoints(e)
  \/ \E ranking_model \in RankingModels : RankCell(ranking_model)
  \/ ShowCell
  \/ \E t \in EventTimes : PutHot(inference_customer_id, t)

RankNext ==
  \/ \E e \in Endpoints : EndpointListed(e)
  \/ \E e \in Endpoints : EndpointInService(e)
  \/ NotebookStep

\* ------------------------------------------------------------------------
\* Specifications
\* ------------------------------------------------------------------------

vars == <<aggVars, storeVars, rankVars, setupVars>>

Init == AggInit /\ StoreIdle /\ RankIdle /\ SetupDone

\* notebook 3 before its stream is created
SetupInit ==
  /\ AggInit /\ StoreIdle /\ RankIdle
  /\ StreamStatus = "NONE"
  /\ setup_pc = "create_stream"
  /\ polls = <<>>
  /\ sleeps = 0
  /\ creates = <<>>

\* the click stream pipeline, for any customers
Next == AggNext
Spec == Init /\ [][Next]_vars

\* the click stream pipeline as notebook 3 runs it, with the clock running
\* and the application emitting every window that is over
SpecLive ==
  /\ Init /\ [][NotebookNext]_vars
  /\ WF_vars(Tick)
  /\ WF_vars(EmitWindow(inference_customer_id))

\* the click stream pipeline as notebook 3 runs it
SpecNotebook == Init /\ [][NotebookNext]_vars

\* the click stream pipeline with the Lambda function that feeds the
\* feature group
SpecPipeline == Init /\ [][PipelineNext]_vars

\* the pipeline of notebook 3 from the producer to the feature group
SpecNotebookPipeline == Init /\ [][NotebookPipelineNext]_vars

\* one call of put_records_in_kinesis_stream and the application behind it
SpecCall == Init /\ [][CallNext]_vars

\* the puts of notebook 3, its sleep and its read of the feature group
SpecRead == Init /\ [][ReadNext]_vars

\* the click stream pipeline fed by any producer
SpecIngest == Init /\ [][IngestNext]_vars

\* the feature group: puts, syncs and reads
SpecStore == Init /\ [][StoreNext]_vars

\* the offline store, queried while records are put and deleted
SpecCold == Init /\ [][ColdNext]_vars

\* notebook 1. The sync to the offline store is a guarantee of the service
\* and the polling loop of wait_for_offline_data keeps running.
SpecOffline ==
  /\ Init
  /\ [][OfflineNext]_vars
  /\ \A i \in 1..MaxWrites : WF_vars(Replicate(i))
  /\ WF_vars(WaitPoll)

\* notebook 4, for any candidates and any answers of the two models
SpecRank == RankInit /\ [][RankNext]_vars

\* notebook 4 run to its end: the kernel runs the next cell, and the next
\* statement of a cell, as long as there is one. Nothing makes an endpoint
\* come to exist.
\* the selection of the candidates among more products than are kept
SpecSelect == SelectInit /\ [][SelectNext]_vars

\* a request of notebook 4 while new aggregates are put
SpecConcurrent == ConcurrentInit /\ [][ConcurrentNext]_vars

\* the request of notebook 4 run, and run again, against fixed models
SpecRerun == RerunInit /\ [][RerunNext]_vars

\* the setup cells of notebook 3: the stream, then the application
SpecSetup == SetupInit /\ [][SetupNext]_vars

SpecRankLive == RankInit /\ [][RankNext]_vars /\ WF_vars(NotebookStep)

\* ------------------------------------------------------------------------
\* Properties of the window aggregation
\* ------------------------------------------------------------------------

RECURSIVE SumWeights(_)
SumWeights(S) ==
  IF S = {} THEN 0
  ELSE LET i == CHOOSE x \in S : TRUE
       IN stream[i].activity_weight + SumWeights(S \ {i})

\* the rows of DESTINATION_SQL_STREAM of one customer, oldest first
RowsOf(c) == SelectSeq(destination, LAMBDA r : r.customer_id = c)

\* positions in the stream of the records of customer c
RecordsOf(c) == {i \in DOMAIN stream : stream[i].customer_id = c}

\* the records of customer c that arrived in [from, from + W)
ArrivedIn(c, from) ==
  {i \in RecordsOf(c) : from <= stream[i].rowtime /\ stream[i].rowtime < from + W}

\* the records of customer c whose event_time lies in [from, from + W)
EventTimeIn(c, from) ==
  {i \in RecordsOf(c) :
     from <= stream[i].event_time /\ stream[i].event_time < from + W}

\* event_time of the first record of a row's window
FirstEventTime(r) ==
  stream[CHOOSE i \in r.rows : \A j \in r.rows : i <= j].event_time

\* C1 as stated: the emitted sum is the sum of activity_weight over the
\* customer's events whose event_time lies in [window_start, window_start + W),
\* the window starting at the event_time of its first event.
C1_SumOverEventTimeWindow ==
  \A k \in DOMAIN destination :
    LET r == destination[k]
    IN r.sum_activity_weight_last_2m =
         SumWeights(EventTimeIn(r.customer_id, FirstEventTime(r)))

\* C1 amended: the emitted sum is the sum of activity_weight over the
\* customer's records that ARRIVED in [window_start, window_start + W), the
\* window starting at the arrival of its first record, whatever their
\* event_time and whatever the order in which they arrived.
C1_SumOverArrivalWindow ==
  \A k \in DOMAIN destination :
    LET r == destination[k]
        arrived == ArrivedIn(r.customer_id, r.window_start)
    IN /\ arrived # {}
       /\ r.sum_activity_weight_last_2m = SumWeights(arrived)

\* C1 witness: a row was emitted for a window whose records arrived out of
\* event_time order and with different weights.
C1_Witness ==
  \E k \in DOMAIN destination :
    \E i, j \in ArrivedIn(destination[k].customer_id, destination[k].window_start) :
      /\ i < j
      /\ stream[i].event_time > stream[j].event_time
      /\ stream[i].activity_weight # stream[j].activity_weight

\* The arrival times at which the windows of customer c open, oldest first:
\* the first record opens a window, and so does every record that arrives
\* when W or more has passed since the last opening.
RECURSIVE WindowStartsFrom(_, _, _)
WindowStartsFrom(c, i, starts) ==
  IF i > Len(stream) THEN starts
  ELSE IF stream[i].customer_id = c
          /\ (starts = <<>> \/ stream[i].rowtime >= starts[Len(starts)] + W)
       THEN WindowStartsFrom(c, i + 1, Append(starts, stream[i].rowtime))
       ELSE WindowStartsFrom(c, i + 1, starts)

WindowStarts(c) == WindowStartsFrom(c, 1, <<>>)

\* C2: every window of a customer emits exactly one row, at its close, and
\* the customer is Idle again after it: the rows of a customer are, in
\* order, one per window that has closed, and only the last window can still
\* be accumulating, and only until its close time.
C2_OneRowPerWindow ==
  \A c \in Customers :
    LET starts == WindowStarts(c)
        rows   == RowsOf(c)
    IN /\ window[c].state \in {"Idle", "Accumulating"}
       /\ window[c].state = "Idle" => Len(rows) = Len(starts)
       /\ window[c].state = "Accumulating" =>
            /\ Len(rows) = Len(starts) - 1
            /\ window[c].start = starts[Len(starts)]
            /\ now <= window[c].start + W
       /\ \A k \in DOMAIN rows :
            /\ rows[k].window_start = starts[k]
            /\ rows[k].emitted_at = starts[k] + W

\* C2 witness: a customer has had two windows, each has emitted its row, and
\* the customer is Idle.
C2_Witness ==
  \E c \in Customers :
    /\ Len(WindowStarts(c)) = 2
    /\ Len(RowsOf(c)) = 2
    /\ window[c].state = "Idle"

\* the window a record of the stream was counted in: a row, or the open window
CountedIn(i) ==
  {<<"row", k>> : k \in {k \in DOMAIN destination : i \in destination[k].rows}}
  \cup {<<"open", c>> : c \in {c \in Customers :
                                 window[c].state = "Accumulating" /\ i \in window[c].rows}}

FirstArrival(r) ==
  stream[CHOOSE i \in r.rows : \A j \in r.rows : i <= j].rowtime

\* C4, windows are staggered: each row's window opened at the arrival of the
\* first record of its own customer and closed W later.
C4_Staggered ==
  \A k \in DOMAIN destination :
    LET r == destination[k]
    IN /\ r.rows # {} /\ r.rows \subseteq RecordsOf(r.customer_id)
       /\ r.window_start = FirstArrival(r)
       /\ r.emitted_at = r.window_start + W

\* C4, windows are independent: a record of customer A leaves the window and
\* the rows of every other customer as they were.
C4_Frame ==
  \A A \in Customers :
    (Len(stream') = Len(stream) + 1 /\ stream'[Len(stream')].customer_id = A)
    => \A B \in Customers \ {A} :
         /\ window'[B] = window[B]
         /\ RowsOf(B)' = RowsOf(B)

\* C4: windows are staggered per customer key and a record of one customer
\* changes nothing of another customer's window or rows.
C4_StaggeredAndIndependent == [](C4_Staggered) /\ [][C4_Frame]_vars

\* C4 witness: two customers have emitted rows of windows that opened one
\* minute apart, each closing W after its own opening, and the window of the
\* second was open when a record of the first arrived.
C4_Witness ==
  \E k1, k2 \in DOMAIN destination :
    /\ destination[k1].customer_id # destination[k2].customer_id
    /\ destination[k2].window_start = destination[k1].window_start + 1
    /\ \E i \in destination[k1].rows :
         stream[i].rowtime = destination[k2].window_start

\* ------------------------------------------------------------------------
\* Properties of the Feature Store
\* ------------------------------------------------------------------------

\* the puts of customer c among the first n
PutsOf(c, n) == {i \in 1..n : i \in DOMAIN writes /\ writes[i].customer_id = c}

\* the put with the greatest EventTime among those of S, the last to arrive
\* of them when several carry it
NewestPut(S) ==
  CHOOSE x \in S :
    \A y \in S :
      \/ writes[y].event_time < writes[x].event_time
      \/ (writes[y].event_time = writes[x].event_time /\ y <= x)

\* C5: after any sequence of puts, get_record returns for each customer the
\* record with the greatest EventTime among all that were put for that
\* customer (no record when none was put); a put that carries an older
\* EventTime than the stored record leaves what get_record returns as it is.
C5_LastWriterByEventTimeWins ==
  \A c \in Customers :
    LET mine == PutsOf(c, Len(writes))
    IN IF mine = {}
       THEN "Record" \notin DOMAIN GetRecord(c)
       ELSE /\ "Record" \in DOMAIN GetRecord(c)
            /\ GetRecord(c).Record = writes[NewestPut(mine)].features
            /\ GetRecord(c).EventTime = writes[NewestPut(mine)].event_time

\* a put with an older EventTime arrived after one with a newer EventTime
\* and get_record still returns the newer one
C5_Witness ==
  \E c \in Customers :
    \E i, j \in PutsOf(c, Len(writes)) :
      /\ i < j
      /\ writes[j].event_time < writes[i].event_time
      /\ "Record" \in DOMAIN GetRecord(c)
      /\ GetRecord(c).Record = writes[i].features

\* C6: a get_record issued after puts for the same customer have completed
\* returns the record of one of those puts, and its EventTime is not older
\* than that of any of them.
C6_ReadAfterWrite ==
  lastRead # NoRead =>
    LET mine == PutsOf(lastRead.customer_id, lastRead.seen)
    IN \A i \in mine :
         /\ "Record" \in DOMAIN lastRead.response
         /\ \E j \in mine :
              /\ lastRead.response.Record = writes[j].features
              /\ lastRead.response.EventTime = writes[j].event_time
              /\ writes[j].event_time >= writes[i].event_time

\* a get_record that followed two puts for its customer with different
\* EventTimes, the older one arriving last
C6_Witness ==
  /\ lastRead # NoRead
  /\ \E i, j \in PutsOf(lastRead.customer_id, lastRead.seen) :
       /\ i < j
       /\ writes[j].event_time < writes[i].event_time
       /\ "Record" \in DOMAIN lastRead.response
       /\ lastRead.response.Record = writes[i].features

\* C7: every record put into the online store is eventually in the offline
\* store, it is never there in the step that puts it, and the wait for the
\* offline data that follows the bulk ingestion ends.
C7_EventuallyOffline ==
  /\ \A i \in 1..MaxWrites : (Len(writes) >= i) ~> (i \in cold)
  /\ [][\A i \in DOMAIN writes' : i \notin DOMAIN writes => i \notin cold']_vars
  /\ (waiter.pc = "waiting") ~> (waiter.pc = "done")

\* the wait has returned after several rows were ingested, all of them in
\* the offline store
C7_Witness ==
  /\ waiter.pc = "done"
  /\ Len(writes) >= 2
  /\ cold = DOMAIN writes

\* C16: the offline store is append-only: a query run again with the same
\* predicate after further puts, deletes and syncs returns every row the
\* earlier run returned whose is_deleted is not set, and possibly more rows.
C16_ColdAppendOnly ==
  \A row \in queried.rows :
    ~row.record.is_deleted => row \in query_offline_store(queried.predicate)

\* a query returned rows, more versions synced after it, and the same query
\* now returns the earlier rows and at least one more
C16_Witness ==
  /\ queried.rows # {}
  /\ Cardinality(cold) > queried.seen
  /\ queried.rows \subseteq query_offline_store(queried.predicate)
  /\ queried.rows # query_offline_store(queried.predicate)
  /\ \E i \in cold : writes[i].is_deleted

\* the records of customer c in the stream
EventsOf(c) == {p \in DOMAIN stream : stream[p].customer_id = c}

\* C19: every row in DESTINATION_SQL_STREAM aggregates at least one record
\* of the stream, all of them records of the row's customer, and a customer
\* without a record in the stream has no row, no open window and no record
\* in the click stream feature group.
C19_NoEventNoAggregate ==
  /\ \A i \in DOMAIN destination :
       /\ destination[i].rows # {}
       /\ destination[i].rows \subseteq EventsOf(destination[i].customer_id)
       /\ destination[i].avg_product_health_index_last_2m[2] >= 1
  /\ \A c \in Customers :
       EventsOf(c) = {} =>
         /\ RowsOf(c) = <<>>
         /\ window[c] = IdleWindow
         /\ ~hot[c].found
         /\ PutsOf(c, Len(writes)) = {}

\* the window of one customer has emitted its row and the row is in the
\* feature group, two minutes or more have passed, and the other customer,
\* who has no record in the stream, has no row and nothing in the feature group
C19_Witness ==
  \E c, d \in Customers :
    /\ EventsOf(c) = {}
    /\ RowsOf(c) = <<>>
    /\ ~hot[c].found
    /\ Len(RowsOf(d)) >= 1
    /\ hot[d].found
    /\ now >= W + 1

\* C18: once the call of put_records_in_kinesis_stream has put its six
\* records and the application has emitted what it accumulated, there is
\* exactly one row in DESTINATION_SQL_STREAM for the customer and it
\* aggregates all six records; at no time is there more than one row.
C18_SixRecordsOneAggregate ==
  /\ Len(RowsOf(inference_customer_id)) <= 1
  /\ (Len(stream) = n_range /\ window[inference_customer_id].state = "Idle") =>
       /\ Len(RowsOf(inference_customer_id)) = 1
       /\ RowsOf(inference_customer_id)[1].rows = 1..n_range

\* the row of the offline store's table that holds the i-th record put
RowOf(i) == [version |-> i, record |-> writes[i]]

\* the predicate that names the record identifier of the i-th record put and
\* one of its features
PredicateFor(i, feature_name, include_deleted) ==
  [customer_id |-> writes[i].customer_id, feature_name |-> feature_name,
   include_deleted |-> include_deleted]

Candidates == {cf_inference_df[i].product_id : i \in DOMAIN cf_inference_df}

\* the number that a text written by str stands for, in hundred-thousandths
RECURSIVE FractionValue(_, _)
FractionValue(t, i) ==
  IF i > Len(t) THEN 0
  ELSE (t[i] - 48) * (10 ^ (7 - i)) + FractionValue(t, i + 1)

ParseFloat(t) ==
  IF \E i \in DOMAIN t : t[i] = 101 THEN t[1] - 48
  ELSE FractionValue(t, 3)

\* the propensity to buy of a candidate, as a number
PropensityOf(product_id) ==
  LET i == CHOOSE k \in DOMAIN cf_inference_df :
             cf_inference_df[k].product_id = product_id
  IN ParseFloat(ranking_inference_df[i].propensity_to_buy)

\* C8 as the claim states it: the list has one entry for each of the K
\* candidates and their ranks are 1..K.
C8_AllCandidatesRanked ==
  pc = "done" =>
    /\ Len(recommendations) = Len(cf_inference_df)
    /\ {recommendations[i].product_id : i \in DOMAIN recommendations} = Candidates
    /\ \A i \in DOMAIN recommendations : recommendations[i].index = i

\* C8: when notebook 4 shows a list for K candidates, the list has the
\* smaller of K and 5 entries, each a different candidate, numbered from 0
\* without a gap in the order of the list; when it raises it shows no list.
C8_TopFiveShown ==
  /\ pc = "done" =>
       /\ Len(recommendations) =
            (IF Len(cf_inference_df) < TopShown THEN Len(cf_inference_df) ELSE TopShown)
       /\ \A i \in DOMAIN recommendations :
            /\ recommendations[i].index = i - 1
            /\ recommendations[i].product_id \in Candidates
       /\ \A i, j \in DOMAIN recommendations :
            i # j => recommendations[i].product_id # recommendations[j].product_id
  /\ pc = "failed" => recommendations = <<>>

\* a list is shown for more than five candidates
C8_Witness ==
  /\ pc = "done"
  /\ Len(cf_inference_df) > TopShown
  /\ Len(recommendations) = TopShown

\* C9: the list is in descending order of the propensity to buy as a number,
\* and of two candidates with the same propensity the one with the smaller
\* product_id comes first.
C9_OrderedByNumericPropensity ==
  pc = "done" =>
    \A i, j \in DOMAIN recommendations :
      i < j =>
        LET x == recommendations[i].product_id
            y == recommendations[j].product_id
        IN \/ PropensityOf(x) > PropensityOf(y)
           \/ (PropensityOf(x) = PropensityOf(y) /\ x < y)

\* C10: when the click stream feature group has no record of the customer,
\* ranking the candidates raises nothing and the input rows of the ranking
\* model carry the neutral aggregate, 0.
C10_ColdStartDefault ==
  (/\ ~hot[inference_customer_id].found
   /\ Len(cf_inference_df) > 0
   /\ pc \in {"show", "done", "failed"}) =>
    /\ raised = ""
    /\ Len(ranking_inference_df) = Len(cf_inference_df)
    /\ \A i \in DOMAIN ranking_inference_df :
         ranking_inference_df[i].healthy_activity_last_2m = 0

\* the text of the propensity to buy of a candidate
PropensityTextOf(product_id) ==
  LET i == CHOOSE k \in DOMAIN cf_inference_df :
             cf_inference_df[k].product_id = product_id
  IN ranking_inference_df[i].propensity_to_buy

\* the list notebook 4 shows when the collaborative filtering model answers
\* with other scores and each product keeps its propensity to buy
ListUnderScores(scores) ==
  LET df == top_candidates(
              top_rated_products_by_customer_state(Len(predictions)), scores)
  IN top_recommendations(
       [i \in DOMAIN df |->
          [index             |-> i - 1,
           product_id        |-> df[i].product_id,
           propensity_to_buy |-> PropensityTextOf(df[i].product_id)]])

\* C11: with the same candidate products and the same propensity to buy for
\* each product, the list shown is the same whatever the scores of the
\* collaborative filtering model are.
C11_CfScoreIrrelevant ==
  (pc = "done" /\ Len(predictions) <= TopCandidates) =>
    \A scores \in [DOMAIN predictions -> CfScores] :
      ListUnderScores(scores) = recommendations

\* the products of the list shown
Listed == {recommendations[i].product_id : i \in DOMAIN recommendations}

\* C12 as the claim states it: the request ends with a ranked list that
\* covers every candidate, or with one error and no list.
C12_FullListOrError ==
  /\ pc = "done" => (raised = "" /\ Listed = Candidates)
  /\ pc = "failed" => (raised # "" /\ recommendations = <<>>)
  /\ raised # "" => pc = "failed"

\* C12: the request ends with a list or with one exception, never both. A
\* list is the head (five entries at most) of a ranking of all candidates:
\* every candidate has a propensity to buy from the one call of the ranking
\* model, and no candidate left out has a propensity text above that of a
\* listed one. When the call of the ranking model raises, the request ends
\* with the exception and without a list.
C12_TopListOrError ==
  /\ pc = "done" =>
       /\ raised = ""
       /\ Len(ranking_inference_df) = Len(cf_inference_df)
       /\ \A i \in DOMAIN ranking_inference_df :
            ranking_inference_df[i].propensity_to_buy # <<>>
       /\ Len(recommendations) =
            (IF Len(cf_inference_df) < TopShown THEN Len(cf_inference_df) ELSE TopShown)
       /\ \A x \in Listed : \A y \in Candidates \ Listed :
            ~TextLess(PropensityTextOf(x), PropensityTextOf(y))
  /\ raised # "" => (pc = "failed" /\ recommendations = <<>>)
  /\ pc = "failed" => raised # ""
  /\ recommendations # <<>> => pc = "done"

\* the call of the ranking model raised for a request with candidates
C12_Witness ==
  /\ pc = "failed"
  /\ raised = "ClientError"
  /\ Len(ranking_inference_df) > 0
  /\ Len(ranking_inference_df) = Len(cf_inference_df)

\* ------------------------------------------------------------------------
\* Properties of the producer side of the stream
\* ------------------------------------------------------------------------

\* C14 as the claim states it: the stream is partitioned by customer_id (the
\* partition key of a record is its customer), and the records of a customer
\* stay in the order in which they were put.
C14_PartitionedByCustomer ==
  /\ \A i \in DOMAIN stream : stream[i].PartitionKey = stream[i].customer_id
  /\ \A i, j \in DOMAIN stream : i < j => stream[i].rowtime <= stream[j].rowtime

\* C14: the stream is one shard and every record carries the same partition
\* key; a put leaves the records that are there in place and adds the new
\* one behind them, so that the records of all customers, and with them the
\* records of each customer, are in the order in which they were put.
C14_InOrder ==
  /\ \A i \in DOMAIN stream : stream[i].PartitionKey = "partitionkey"
  /\ \A i, j \in DOMAIN stream : i < j => stream[i].rowtime <= stream[j].rowtime

C14_Appended ==
  /\ Len(stream') >= Len(stream)
  /\ SubSeq(stream', 1, Len(stream)) = stream

C14_OneShardInOrder == [](C14_InOrder) /\ [][C14_Appended]_vars

\* two records of one customer, put at different times, with a record of
\* the other customer between them
C14_Witness ==
  \E i, j, k \in DOMAIN stream :
    /\ i < j /\ j < k
    /\ stream[i].customer_id = stream[k].customer_id
    /\ stream[j].customer_id # stream[i].customer_id
    /\ stream[i].rowtime < stream[k].rowtime

RequiredFields ==
  {"event_time", "customer_id", "activity_type", "activity_weight",
   "product_health_index"}

\* a record that passes the validation the claim describes
ValidEvent(data) ==
  /\ RequiredFields \subseteq DOMAIN data
  /\ data.activity_weight >= 0
  /\ data.activity_type \in activities

C15_BoundedRetryThenFail ==
  /\ [](raised = "ClientError" =>
          /\ pc = "failed"
          /\ recommendations = <<>>
          /\ (ranking_inference_df = <<>> => predictions = <<>>))
  /\ <>(pc \in {"done", "failed"})

\* the score the collaborative filtering model gave to a product
CfScoreOf(product_id) ==
  LET scored == top_rated_products_by_customer_state(Len(predictions))
      i == CHOOSE j \in DOMAIN scored : scored[j].product_id = product_id
  IN predictions[i]

\* the products that were scored
Scored ==
  LET scored == top_rated_products_by_customer_state(Len(predictions))
  IN {scored[j].product_id : j \in DOMAIN scored}

\* C20: the frame the collaborative filtering cell leaves for the ranking
\* model holds the ten best scored products, all of them when fewer than
\* ten were scored: each product once, with the score the model gave it,
\* and no product left out has a higher score than a product kept.
C20_TopTenByScore ==
  pc = "wait_rank" =>
    /\ Len(cf_inference_df) =
         (IF Len(predictions) < TopCandidates THEN Len(predictions) ELSE TopCandidates)
    /\ Candidates \subseteq Scored
    /\ Cardinality(Candidates) = Len(cf_inference_df)
    /\ \A i \in DOMAIN cf_inference_df :
         cf_inference_df[i].predictions = CfScoreOf(cf_inference_df[i].product_id)
    /\ \A p \in Candidates : \A q \in Scored \ Candidates :
         CfScoreOf(p) >= CfScoreOf(q)

\* more than ten products were scored, ten were kept, and one of the first
\* ten of the input was dropped for a product with a higher score behind it
C20_Witness ==
  /\ pc = "wait_rank"
  /\ Len(predictions) > TopCandidates
  /\ Len(cf_inference_df) = TopCandidates
  /\ \E i \in 1..TopCandidates :
       LET p == top_rated_products_by_customer_state(Len(predictions))[i].product_id
       IN /\ p \notin Candidates
          /\ \E q \in Candidates : CfScoreOf(q) > CfScoreOf(p)

\* the positions in calls of the invocations of the ranking model
Invocations == {i \in DOMAIN calls : calls[i].api = "predict"}

\* the positions in calls of the reads of a feature group
ReadsOf(group) == {i \in DOMAIN calls : calls[i].api = "get_record" /\ calls[i].group = group}

\* C21: in one run of the ranking cell the ranking model is invoked at most
\* once, and exactly once when the cell gets as far as a ranked frame or the
\* endpoint's error; the invocation carries one row for each candidate and
\* comes after the read of the customer's record, the read of every
\* candidate's product record and the read of the click stream record.
C21_OneInvocationAfterReads ==
  /\ Cardinality(Invocations) <= 1
  /\ (pc \in {"show", "done"} \/ (raised = "ClientError" /\ calls # <<>>))
       => Cardinality(Invocations) = 1
  /\ \A i \in Invocations :
       /\ calls[i].rows = Len(cf_inference_df)
       /\ \E j \in ReadsOf("customers") : j < i
       /\ \E j \in ReadsOf("click_stream") : j < i
       /\ \A p \in Candidates :
            \E j \in ReadsOf("products") : j < i /\ calls[j].product_id = p
       /\ Cardinality(ReadsOf("products")) = Len(cf_inference_df)

\* the ranking cell has run on several candidates and its one invocation is
\* the last of its calls
C21_Witness ==
  /\ pc = "done"
  /\ Len(cf_inference_df) >= 3
  /\ Invocations = {Len(calls)}
  /\ Len(calls) = Len(cf_inference_df) + 3

\* the customers whose window or rows a step changes
Mutated == {c \in Customers : window'[c] # window[c] \/ RowsOf(c)' # RowsOf(c)}

\* what the application emits for customer c when it is given the records of
\* c alone: a row for each window of c, over the records of c that arrived
\* in it
AloneRows(c) ==
  LET starts == WindowStarts(c)
  IN [k \in DOMAIN starts |->
        [window_start |-> starts[k],
         rows         |-> ArrivedIn(c, starts[k]),
         sum          |-> SumWeights(ArrivedIn(c, starts[k])),
         n            |-> Cardinality(ArrivedIn(c, starts[k]))]]

C22_AsAlone ==
  \A c \in Customers :
    LET rows == RowsOf(c)
    IN /\ Len(rows) <= Len(AloneRows(c))
       /\ window[c].state = "Idle" => Len(rows) = Len(AloneRows(c))
       /\ \A k \in DOMAIN rows :
            /\ rows[k].window_start = AloneRows(c)[k].window_start
            /\ rows[k].rows = AloneRows(c)[k].rows
            /\ rows[k].sum_activity_weight_last_2m = AloneRows(c)[k].sum
            /\ rows[k].avg_product_health_index_last_2m[2] = AloneRows(c)[k].n

\* C22: a step of the application updates the window state of one customer
\* at most, the steps of different customers interleave in any order, and
\* under every interleaving the rows of a customer are those the application
\* emits when it is given that customer's records alone.
C22_OneMutatorPerKey ==
  /\ [](C22_AsAlone)
  /\ [][Cardinality(Mutated) <= 1]_vars

\* the records of two customers arrived interleaved, while the window of the
\* other customer was open, and both customers have their row
C22_Witness ==
  \E c, d \in Customers :
    /\ c # d
    /\ \E i, j \in RecordsOf(c) : \E m \in RecordsOf(d) : i < m /\ m < j
    /\ Len(RowsOf(c)) = 1 /\ RowsOf(c)[1].rows = RecordsOf(c)
    /\ Len(RowsOf(d)) = 1
    /\ RowsOf(c)[1].window_start # RowsOf(d)[1].window_start

\* what the request returns when it is run alone, on the candidates as
\* notebook 2 stored them, against the models behind the endpoints
RequestAlone ==
  LET df == top_candidates(
              top_rated_products_by_customer_state(Len(deployed.cf)), deployed.cf)
  IN top_recommendations(
       [i \in DOMAIN df |->
          [index             |-> i - 1,
           product_id        |-> df[i].product_id,
           propensity_to_buy |->
             FloatText(deployed.rank[product_health_index(df[i].product_id)])]])

\* C23: requests share no mutable state: a request run after another one,
\* against the same models and the same Feature Store, returns the list it
\* returns when it is run alone.
C23_RequestsIndependent ==
  pc = "done" => recommendations = RequestAlone

\* the rows of DESTINATION_SQL_STREAM that the Lambda function has put into
\* the feature group for customer c
Delivered(c) == {k \in 1..Len(writes) : destination[k].customer_id = c}

\* C24: the click stream feature group holds at most one record for each
\* customer_id, and it is the row of the customer's window that was emitted
\* last: a new row takes the place of the one before and is not added to it.
C24_OneCurrentAggregate ==
  \A c \in Customers :
    IF Delivered(c) = {}
    THEN ~hot[c].found
    ELSE LET last == CHOOSE k \in Delivered(c) : \A j \in Delivered(c) : j <= k
         IN /\ hot[c].found
            /\ hot[c].features.sum_activity_weight_last_2m =
                 destination[last].sum_activity_weight_last_2m
            /\ hot[c].features.avg_product_health_index_last_2m =
                 destination[last].avg_product_health_index_last_2m
            /\ "Record" \in DOMAIN GetRecord(c)
            /\ GetRecord(c).Record = hot[c].features

\* windows of sums 5 and then 1 were emitted and put, and the feature group
\* holds the sum 1
C24_Witness ==
  /\ Len(destination) = 2
  /\ Len(writes) = 2
  /\ destination[1].sum_activity_weight_last_2m = 5
  /\ destination[2].sum_activity_weight_last_2m = 1
  /\ hot[inference_customer_id].features.sum_activity_weight_last_2m = 1

\* C25: when the wait loop of an endpoint has exited and the cell that calls
\* predict is next, that endpoint is in service, for the collaborative
\* filtering endpoint and for the ranking endpoint.
C25_InServiceAfterWait ==
  /\ pc = "cf" => "cf" \in in_service
  /\ pc = "rank" => "rank" \in in_service

\* the rows of DESTINATION_SQL_STREAM that count the i-th record of the stream
EmittedIn(i) == {k \in DOMAIN destination : i \in destination[k].rows}

\* C26: a record of the stream is at every moment counted in one place, the
\* open window of its customer or one emitted row of its customer, never in
\* two rows and never in none; and with the clock running it ends up in an
\* emitted row (for the records whose window is over by MaxTime, the last
\* minute of the clock).
C26_ExactlyOneAggregate ==
  /\ [](\A i \in DOMAIN stream :
          /\ Cardinality(EmittedIn(i)) <= 1
          /\ Cardinality(CountedIn(i)) = 1
          /\ \A k \in EmittedIn(i) :
               destination[k].customer_id = stream[i].customer_id)
  /\ \A i \in 1..MaxNotebookEvents :
       (i \in DOMAIN stream /\ stream[i].rowtime + W <= MaxTime)
         ~> (Cardinality(EmittedIn(i)) = 1)

\* every record of the stream is in an emitted row and no window is open,
\* after two windows of the same customer
C26_Witness ==
  /\ Len(stream) = MaxNotebookEvents
  /\ \A i \in DOMAIN stream : Cardinality(EmittedIn(i)) = 1
  /\ \A c \in Customers : window[c].state = "Idle"
  /\ \E c \in Customers : Len(RowsOf(c)) = 2

\* the versions of the click stream record of the customer of the request:
\* the one the feature group held at the start and those put since
AggregateVersions ==
  {Features(5)}
  \cup {writes[i].features : i \in PutsOf(inference_customer_id, Len(writes))}

\* healthy_activity_last_2m as computed from one version of the record
HealthyActivity(v) ==
  (v.sum_activity_weight_last_2m * v.avg_product_health_index_last_2m[1])
    \div v.avg_product_health_index_last_2m[2]

\* C27: the rows built for the ranking model all carry the same
\* healthy_activity_last_2m, and it is the product of the sum and the
\* average of one version of the customer's click stream record, whatever
\* is put into the feature group while the request runs.
C27_OneAggregateVersion ==
  ranking_inference_df # <<>> =>
    \E v \in AggregateVersions :
      \A i \in DOMAIN ranking_inference_df :
        ranking_inference_df[i].healthy_activity_last_2m = HealthyActivity(v)

\* the rows of several candidates carry the value of the version that was
\* put first, and a newer version has been put before the request has ended
C27_Witness ==
  /\ pc = "show"
  /\ Len(ranking_inference_df) >= 2
  /\ Len(writes) >= 2
  /\ hot[inference_customer_id].features = writes[2].features
  /\ HealthyActivity(writes[1].features) # HealthyActivity(writes[2].features)
  /\ \A i \in DOMAIN ranking_inference_df :
       ranking_inference_df[i].healthy_activity_last_2m
         = HealthyActivity(writes[1].features)

\* ------------------------------------------------------------------------
\* Properties of the setup cells of notebook 3
\* ------------------------------------------------------------------------

\* C28: the loop that waits for the Kinesis stream ends once a poll returns
\* ACTIVE, and after a poll that returned any other status the notebook
\* sleeps before it polls again.
C28_SleepBetweenPolls ==
  /\ (polls # <<>> /\ polls[Len(polls)].status = "ACTIVE")
       => setup_pc \notin {"describe_stream", "sleep_stream"}
  /\ \A i \in 2..Len(polls) :
       polls[i - 1].status # "ACTIVE" => polls[i].sleeps > polls[i - 1].sleeps

\* C29: the loop around create_application calls create_application at
\* most once, whatever status the first call returned.
C29_CreateAtMostOnce == Len(creates) <= 1



\* C30: when notebook 3 reads the feature group after its sleep, at least
\* W minutes have passed since every put, so the window opened by the first
\* put, and every window holding one of the records, is over by then.
C30_ReadAfterWindowClosed ==
  lastRead # NoRead =>
    /\ \A i \in DOMAIN stream : now >= stream[i].rowtime + W
    /\ now >= WindowOpenAt(stream[1].rowtime) + W
    /\ LET w == window[inference_customer_id]
       IN w.state = "Idle" \/ Expired(w)

\* the read has happened after puts that were spread over more than one
\* minute, and after the application has emitted a row
C30_Witness ==
  /\ lastRead # NoRead
  /\ stream[n_range].rowtime > stream[1].rowtime
  /\ destination # <<>>


============================================================================
